---- MODULE Spec2Model ----
(***************************************************************************)
(* Model of src/fx_bot.py: the price-action pipeline (swing points ->      *)
(* zones -> classification -> cooldown gate -> message -> delivery) and    *)
(* the threads that invoke run_analysis_task (the scheduler job and the    *)
(* /trigger background tasks).                                             *)
(*                                                                         *)
(* Prices are integers in units of 0.001 yen (the resolution zone_price is *)
(* rounded to), wick ratios integers in units of 0.01 (the resolution      *)
(* wick_ratio is rounded to), and arithmetic is exact: the binary          *)
(* floating-point error of the Python floats is not modelled.              *)
(* Time is an integer count of hours.                                      *)
(***************************************************************************)
EXTENDS Integers, Sequences, FiniteSets, TLC

VARIABLES
    last_notified,  \* the module global of lines 35-41
    now,            \* the wall clock datetime.now() reads
    run,            \* per invoking thread: the frame of its run_analysis_task call
    log,            \* history: the alerts handed to send_line_message, in order,
                    \* each with the time update_notify_state recorded for it
    call            \* a call of a function of the pipeline on its own: its
                    \* arguments and, once it has returned, what it returned

vars == <<last_notified, now, run, log, call>>

(***************************************************************************)
(* Configuration parameters (fx_bot.py 44-48).                             *)
(***************************************************************************)
COOLDOWN_HOURS == 1
THRESHOLD == 100
ZONE_MERGE_PIPS == 50
BREAKOUT_MARGIN == 50
SWING_WINDOW == 5
\* the slices [:5] of build_full_ai_context (437, 443)
CONTEXT_ZONES == 5

(***************************************************************************)
(* Bounds of the model.                                                    *)
(***************************************************************************)
MaxTime == 2
MaxLog == 2
MaxLevel == 4
MaxPoints == 3
MaxCandles == 4
MaxWindow == 1
MaxPx == 1
MaxZonePoints == 3
MaxZoneLevel == 3
MaxCtxLevel == 6

\* Python's None in the "time" slot of last_notified (line 36): no time is negative
None == -1
Kinds == {"resistance", "support", "range", "breakout_up", "breakout_down"}

Abs(x) == IF x < 0 THEN -x ELSE x

\* round(x, ndigits) of a non-negative quotient num/den on the model's grid:
\* nearest integer, ties to even
Round(num, den) ==
    LET q == num \div den
        r == num % den
    IN  IF 2 * r < den THEN q
        ELSE IF 2 * r > den THEN q + 1
        ELSE IF q % 2 = 0 THEN q ELSE q + 1

RECURSIVE SumPrice(_)
SumPrice(pts) == IF pts = <<>> THEN 0 ELSE Head(pts).price + SumPrice(Tail(pts))

RECURSIVE SumWick(_)
SumWick(pts) == IF pts = <<>> THEN 0 ELSE Head(pts).wick_ratio + SumWick(Tail(pts))

\* list.sort / sorted are stable: an element goes after every element whose
\* key is not greater.  sorted(swing_points, key=price), line 202
RECURSIVE InsertByPrice(_, _)
InsertByPrice(s, x) ==
    IF s = <<>> THEN <<x>>
    ELSE IF x.price < Head(s).price THEN <<x>> \o s
    ELSE <<Head(s)>> \o InsertByPrice(Tail(s), x)

RECURSIVE SortByPrice(_)
SortByPrice(s) ==
    IF s = <<>> THEN <<>>
    ELSE InsertByPrice(SortByPrice(SubSeq(s, 1, Len(s) - 1)), s[Len(s)])

\* sorted(pts, key=timestamp, reverse=True), line 239: descending, and equal
\* keys keep their order
RECURSIVE InsertByTimeDesc(_, _)
InsertByTimeDesc(s, x) ==
    IF s = <<>> THEN <<x>>
    ELSE IF x.timestamp > Head(s).timestamp THEN <<x>> \o s
    ELSE <<Head(s)>> \o InsertByTimeDesc(Tail(s), x)

RECURSIVE NewestFirst(_)
NewestFirst(s) ==
    IF s = <<>> THEN <<>>
    ELSE InsertByTimeDesc(NewestFirst(SubSeq(s, 1, Len(s) - 1)), s[Len(s)])

(***************************************************************************)
(* detect_swing_points (fx_bot.py 118-189).  A frame is the sequence of    *)
(* its candles, oldest first; positions are counted from 0 as iloc counts  *)
(* them, and a candle's timestamp is its position.                         *)
(***************************************************************************)
\* df.iloc[j]: a negative position counts from the end, and a position
\* outside -len..len-1 raises IndexError
IlocOk(df, j) == -Len(df) <= j /\ j < Len(df)
Iloc(df, j) == IF j < 0 THEN df[Len(df) + j + 1] ELSE df[j + 1]

\* the loop started one position early
SwingRange_OneEarly(df, window) ==
    {i \in 0..(Len(df) - 1) : window - 1 <= i /\ i < Len(df) - window}

\* range(window, len(df) - window), line 131
SwingRange(df, window) == {i \in 0..(Len(df) - 1) : window <= i /\ i < Len(df) - window}

\* range(i - window, i + window + 1) without i, lines 145-147 and 168-170
Neighbours(i, window) == {j \in (i - window)..(i + window) : j # i}

\* lines 139-141: the body, floored at 0.001
Body(row) == IF Abs(row.Close - row.Open) < 1 THEN 1 ELSE Abs(row.Close - row.Open)

Max2(a, b) == IF a > b THEN a ELSE b
Min2(a, b) == IF a < b THEN a ELSE b

\* a swing high must exceed every neighbour: an equal high disqualifies
is_swing_high_StrictMax(df, i, window) ==
    \A j \in Neighbours(i, window) : Iloc(df, j).High < Iloc(df, i).High

\* lines 144-150
is_swing_high(df, i, window) ==
    \A j \in Neighbours(i, window) : ~(Iloc(df, j).High > Iloc(df, i).High)

\* lines 167-173
is_swing_low(df, i, window) ==
    \A j \in Neighbours(i, window) : ~(Iloc(df, j).Low < Iloc(df, i).Low)

\* lines 152-164
HighPoint(df, i) ==
    LET row == Iloc(df, i)
    IN  [price |-> row.High, timestamp |-> i,
         wick_ratio |-> Round(100 * (row.High - Max2(row.Open, row.Close)), Body(row)),
         type |-> "resistance",
         high |-> row.High, low |-> row.Low, open |-> row.Open, close |-> row.Close]

\* lines 175-187
LowPoint(df, i) ==
    LET row == Iloc(df, i)
    IN  [price |-> row.Low, timestamp |-> i,
         wick_ratio |-> Round(100 * (Min2(row.Open, row.Close) - row.Low), Body(row)),
         type |-> "support",
         high |-> row.High, low |-> row.Low, open |-> row.Open, close |-> row.Close]

\* the body of the loop of line 131 over the positions of S, ascending
RECURSIVE SwingOver(_, _, _)
SwingOver(df, window, S) ==
    IF S = {} THEN <<>>
    ELSE LET i == CHOOSE m \in S : \A n \in S : m <= n
         IN  (IF is_swing_high(df, i, window) THEN <<HighPoint(df, i)>> ELSE <<>>)
             \o (IF is_swing_low(df, i, window) THEN <<LowPoint(df, i)>> ELSE <<>>)
             \o SwingOver(df, window, S \ {i})

\* whether some df.iloc[j] of the loop raises
SwingRaises(df, window) ==
    \E i \in SwingRange(df, window) :
        \/ ~IlocOk(df, i)
        \/ \E j \in Neighbours(i, window) : ~IlocOk(df, j)

\* lines 124-189: what the call returns, or that it raised
detect_swing_points(df, window) ==
    IF Len(df) = 0 \/ Len(df) < window * 2 + 1
    THEN [raised |-> FALSE, points |-> <<>>]
    ELSE IF SwingRaises(df, window)
    THEN [raised |-> TRUE, points |-> <<>>]
    ELSE [raised |-> FALSE,
          points |-> SwingOver(df, window, SwingRange(df, window))]

(***************************************************************************)
(* group_price_zones (fx_bot.py 193-251).                                  *)
(***************************************************************************)
\* the merge test on the price alone, whatever the point's type
Merges_AnyType(zone, point, merge_distance) ==
    Abs(point.price * Len(zone.points) - SumPrice(zone.points))
        <= merge_distance * Len(zone.points)

\* the merge test against the point that seeded the open zone
Merges_FromSeed(zone, point, merge_distance) ==
    /\ Abs(point.price - zone.points[1].price) <= merge_distance
    /\ point.type = zone.type

\* the merge test of line 213 against the running mean of the open zone
Merges(zone, point, merge_distance) ==
    /\ Abs(point.price * Len(zone.points) - SumPrice(zone.points))
          <= merge_distance * Len(zone.points)
    /\ point.type = zone.type

\* the loop of lines 204-221: the closed zones, then the open one
RECURSIVE ClusterFrom(_, _, _, _)
ClusterFrom(closed, current_zone, rest, merge_distance) ==
    IF rest = <<>> THEN Append(closed, current_zone)
    ELSE LET point == Head(rest)
         IN  IF Merges(current_zone, point, merge_distance)
             THEN ClusterFrom(closed,
                      [current_zone EXCEPT !.points = Append(@, point)],
                      Tail(rest), merge_distance)
             ELSE ClusterFrom(Append(closed, current_zone),
                      [points |-> <<point>>, type |-> point.type],
                      Tail(rest), merge_distance)

\* the wick bonus without the cap
Stars_NoCap(reaction_count, wick_sum) ==
    LET stars == IF reaction_count < 3 THEN reaction_count ELSE 3
    IN  IF wick_sum >= 200 * reaction_count THEN stars + 1 ELSE stars

\* lines 234-236
Stars(reaction_count, wick_sum) ==
    LET stars == IF reaction_count < 3 THEN reaction_count ELSE 3
    IN  IF wick_sum >= 200 * reaction_count /\ stars < 3 THEN stars + 1 ELSE stars

\* lines 225-249
ZoneStats(zone) ==
    LET pts == zone.points
        reaction_count == Len(pts)
    IN  [zone_price     |-> Round(SumPrice(pts), reaction_count),
         type           |-> zone.type,
         reaction_count |-> reaction_count,
         strength       |-> Stars(reaction_count, SumWick(pts)),
         avg_wick_ratio |-> Round(SumWick(pts), reaction_count),
         reactions      |-> NewestFirst(pts)]

group_price_zones(swing_points, merge_distance) ==
    IF swing_points = <<>> THEN <<>>
    ELSE LET sorted_points == SortByPrice(swing_points)
             zones == ClusterFrom(<<>>,
                          [points |-> <<sorted_points[1]>>,
                           type   |-> sorted_points[1].type],
                          Tail(sorted_points), merge_distance)
         IN  [i \in 1..Len(zones) |-> ZoneStats(zones[i])]


(***************************************************************************)
(* The cooldown gate (fx_bot.py 103-114).                                  *)
(***************************************************************************)
Cooldown == COOLDOWN_HOURS

\* the gate opening when the cooldown has just elapsed
can_notify_AtCooldown(state, notify_type, t) ==
    LET last == state[notify_type]
    IN  last.time = None \/ (t - last.time) >= Cooldown

\* lines 105-110, with the time datetime.now() returned and the state read
can_notify(state, notify_type, t) ==
    LET last == state[notify_type]
    IN  last.time = None \/ (t - last.time) > Cooldown

\* one timestamp shared by every kind
update_notify_state_AllKinds(state, notify_type, current_price, t) ==
    [k \in DOMAIN state |->
        IF k = notify_type THEN [time |-> t, price |-> current_price]
        ELSE [state[k] EXCEPT !.time = t]]

\* lines 113-114
update_notify_state(state, notify_type, current_price, t) ==
    [state EXCEPT ![notify_type] = [time |-> t, price |-> current_price]]

(***************************************************************************)
(* Step 3 and Step 4 of run_analysis_task (fx_bot.py 522-580).             *)
(***************************************************************************)
NoZone == [zone_price |-> -1, type |-> "none", reaction_count |-> 0,
           strength |-> 0, avg_wick_ratio |-> 0, reactions |-> <<>>]

\* lines 531-532: list.sort(key=|zone_price - current_price|), stable
RECURSIVE InsertByDistance(_, _, _)
InsertByDistance(s, z, current_price) ==
    IF s = <<>> THEN <<z>>
    ELSE IF Abs(z.zone_price - current_price) < Abs(Head(s).zone_price - current_price)
         THEN <<z>> \o s
    ELSE <<Head(s)>> \o InsertByDistance(Tail(s), z, current_price)

RECURSIVE SortByDistance(_, _)
SortByDistance(s, current_price) ==
    IF s = <<>> THEN <<>>
    ELSE InsertByDistance(SortByDistance(SubSeq(s, 1, Len(s) - 1), current_price),
                          s[Len(s)], current_price)

\* the lowest in place of the highest
RECURSIVE MaxByPrice_Lowest(_)
MaxByPrice_Lowest(s) ==
    IF Len(s) = 1 THEN s[1]
    ELSE LET m == MaxByPrice_Lowest(SubSeq(s, 1, Len(s) - 1))
         IN  IF s[Len(s)].zone_price < m.zone_price THEN s[Len(s)] ELSE m

\* max(seq, key=zone_price): the first of the greatest
RECURSIVE MaxByPrice(_)
MaxByPrice(s) ==
    IF Len(s) = 1 THEN s[1]
    ELSE LET m == MaxByPrice(SubSeq(s, 1, Len(s) - 1))
         IN  IF s[Len(s)].zone_price > m.zone_price THEN s[Len(s)] ELSE m

\* min(seq, key=zone_price): the first of the least
RECURSIVE MinByPrice(_)
MinByPrice(s) ==
    IF Len(s) = 1 THEN s[1]
    ELSE LET m == MinByPrice(SubSeq(s, 1, Len(s) - 1))
         IN  IF s[Len(s)].zone_price < m.zone_price THEN s[Len(s)] ELSE m

\* the filter without its threshold: only the zones at or above the price
res_zones_AbovePrice(current_price, zones) ==
    SelectSeq(zones, LAMBDA z : z.type = "resistance"
                                /\ z.zone_price >= current_price)

\* line 523
res_zones(current_price, zones) ==
    SelectSeq(zones, LAMBDA z : z.type = "resistance"
                                /\ z.zone_price >= current_price - THRESHOLD)
\* line 524
sup_zones(current_price, zones) ==
    SelectSeq(zones, LAMBDA z : z.type = "support"
                                /\ z.zone_price <= current_price + THRESHOLD)
\* lines 527, 531
nearby_res(current_price, zones) ==
    SortByDistance(
        SelectSeq(res_zones(current_price, zones),
                  LAMBDA z : Abs(z.zone_price - current_price) <= THRESHOLD),
        current_price)
\* lines 528, 532
nearby_sup(current_price, zones) ==
    SortByDistance(
        SelectSeq(sup_zones(current_price, zones),
                  LAMBDA z : Abs(z.zone_price - current_price) <= THRESHOLD),
        current_price)
\* lines 541-542
all_res(zones) == SelectSeq(zones, LAMBDA z : z.type = "resistance")
all_sup(zones) == SelectSeq(zones, LAMBDA z : z.type = "support")
\* line 545
broken_res(current_price, zones) ==
    SelectSeq(all_res(zones), LAMBDA z : current_price > z.zone_price + BREAKOUT_MARGIN)
\* line 547
broken_sup(current_price, zones) ==
    SelectSeq(all_sup(zones), LAMBDA z : current_price < z.zone_price - BREAKOUT_MARGIN)

\* the five branches of lines 549-580 in the order the code writes them: the
\* alert kind, the branch condition, and the zones the branch hands its
\* message builder
Branches(current_price, zones) ==
    LET br == broken_res(current_price, zones)
        bs == broken_sup(current_price, zones)
        nr == nearby_res(current_price, zones)
        ns == nearby_sup(current_price, zones)
    IN  << [kind |-> "breakout_up", cond |-> br # <<>>,
            zone |-> IF br # <<>> THEN MaxByPrice(br) ELSE NoZone, zone2 |-> NoZone],
           [kind |-> "breakout_down", cond |-> bs # <<>>,
            zone |-> IF bs # <<>> THEN MinByPrice(bs) ELSE NoZone, zone2 |-> NoZone],
           [kind |-> "range", cond |-> nr # <<>> /\ ns # <<>>,
            zone  |-> IF nr # <<>> THEN nr[1] ELSE NoZone,
            zone2 |-> IF ns # <<>> THEN ns[1] ELSE NoZone],
           [kind |-> "resistance", cond |-> nr # <<>>,
            zone |-> IF nr # <<>> THEN nr[1] ELSE NoZone, zone2 |-> NoZone],
           [kind |-> "support", cond |-> ns # <<>>,
            zone |-> IF ns # <<>> THEN ns[1] ELSE NoZone, zone2 |-> NoZone] >>

\* the chain read bottom-up: the last branch whose condition holds
TakenBranches_LastMatch(current_price, zones) ==
    LET matching == SelectSeq(Branches(current_price, zones), LAMBDA b : b.cond)
    IN  IF matching = <<>> THEN <<>> ELSE <<matching[Len(matching)]>>

\* if in place of elif: every branch whose condition holds is entered
TakenBranches_AllMatching(current_price, zones) ==
    SelectSeq(Branches(current_price, zones), LAMBDA b : b.cond)

\* if / elif / elif / elif / elif: of the branches whose condition holds only
\* the first is entered
TakenBranches(current_price, zones) ==
    LET matching == SelectSeq(Branches(current_price, zones), LAMBDA b : b.cond)
    IN  IF matching = <<>> THEN <<>> ELSE <<Head(matching)>>

\* the classification of a price against a zone list: the kind of the
\* branch entered, "none" when no branch is
Classify(current_price, zones) ==
    LET taken == TakenBranches(current_price, zones)
    IN  IF taken = <<>> THEN "none" ELSE taken[1].kind


(***************************************************************************)
(* Message builders (fx_bot.py 255-390, 487-500): a message is modelled by *)
(* what it reports, the alert kind and the zone(s), and by the advisory    *)
(* text appended to it.                                                    *)
(***************************************************************************)
EmptyMessage == [kind |-> "", zone |-> NoZone, zone2 |-> NoZone, ai |-> ""]

\* build_breakout_message / build_range_message / build_alert_message as
\* called at lines 553, 560, 567, 573, 579
BuildMessage(b) == [kind |-> b.kind, zone |-> b.zone, zone2 |-> b.zone2, ai |-> ""]

\* lines 484-497: the diagnostic message of a forced run
BuildTestMessage(current_price, zones) ==
    LET r == SortByDistance(all_res(zones), current_price)
        u == SortByDistance(all_sup(zones), current_price)
    IN  [kind  |-> "test",
         zone  |-> IF r # <<>> THEN r[1] ELSE NoZone,
         zone2 |-> IF u # <<>> THEN u[1] ELSE NoZone,
         ai    |-> ""]

(***************************************************************************)
(* build_full_ai_context (fx_bot.py 394-447): the zone map it puts in the  *)
(* context, a list of lines per type, each line a zone and its signed      *)
(* distance from the price in pips (0.01 yen).                             *)
(***************************************************************************)
\* sorted(key=zone_price), line 432
RECURSIVE InsertByZonePrice(_, _)
InsertByZonePrice(s, z) ==
    IF s = <<>> THEN <<z>>
    ELSE IF z.zone_price < Head(s).zone_price THEN <<z>> \o s
    ELSE <<Head(s)>> \o InsertByZonePrice(Tail(s), z)

RECURSIVE LowestFirst(_)
LowestFirst(s) ==
    IF s = <<>> THEN <<>>
    ELSE InsertByZonePrice(LowestFirst(SubSeq(s, 1, Len(s) - 1)), s[Len(s)])

\* sorted(key=zone_price, reverse=True), line 433
RECURSIVE InsertByZonePriceDesc(_, _)
InsertByZonePriceDesc(s, z) ==
    IF s = <<>> THEN <<z>>
    ELSE IF z.zone_price > Head(s).zone_price THEN <<z>> \o s
    ELSE <<Head(s)>> \o InsertByZonePriceDesc(Tail(s), z)

RECURSIVE HighestFirst(_)
HighestFirst(s) ==
    IF s = <<>> THEN <<>>
    ELSE InsertByZonePriceDesc(HighestFirst(SubSeq(s, 1, Len(s) - 1)), s[Len(s)])

\* s[:n]
Take(s, n) == SubSeq(s, 1, IF Len(s) < n THEN Len(s) ELSE n)

\* the format +.0f of a quotient: nearest integer, ties to even, signed
RoundSigned(num, den) == IF num >= 0 THEN Round(num, den) ELSE -Round(-num, den)

\* lines 437-439 and 443-445: one line per zone of the slice, with the
\* distance (zone_price - current_price) * 100 in whole pips
ContextLines(zs, current_price) ==
    [i \in 1..Len(zs) |->
        [zone |-> zs[i], dist |-> RoundSigned(zs[i].zone_price - current_price, 10)]]

\* lines 432-445
build_full_ai_context(current_price, zones) ==
    [res |-> ContextLines(Take(LowestFirst(all_res(zones)), CONTEXT_ZONES),
                          current_price),
     sup |-> ContextLines(Take(HighestFirst(all_sup(zones)), CONTEXT_ZONES),
                          current_price)]

(***************************************************************************)
(* The inputs a run reads from its environment.                            *)
(***************************************************************************)
Types == {"resistance", "support"}
PointPrices == {i * BREAKOUT_MARGIN : i \in 0..MaxLevel}
MidPrice == (MaxLevel * BREAKOUT_MARGIN) \div 2
HalfMargin == BREAKOUT_MARGIN \div 2
CurrentPrices == {MidPrice - HalfMargin, MidPrice, MidPrice + HalfMargin}

\* the swing points of a fetched candle series, in candle order: any prices
\* and types, one point per candle
PointSeqs(n) ==
    UNION { { [i \in 1..k |-> [price |-> f[i][1], type |-> f[i][2],
                               timestamp |-> i, wick_ratio |-> 0]]
              : f \in [1..k -> PointPrices \X Types] }
            : k \in 0..n }

\* the market situations the threads of the full program meet: no swing
\* point, one zone (broken, near or far, of either type), or a resistance
\* above and a support below the price
ScenarioPrices == {MidPrice - 2 * BREAKOUT_MARGIN, MidPrice + BREAKOUT_MARGIN,
                   MidPrice + 3 * BREAKOUT_MARGIN}
Scenarios ==
    {<<>>}
    \cup { <<[price |-> x, type |-> t, timestamp |-> 1, wick_ratio |-> 0]>>
            : x \in ScenarioPrices, t \in Types }
    \cup { <<[price |-> MidPrice + BREAKOUT_MARGIN, type |-> "resistance",
              timestamp |-> 1, wick_ratio |-> 0],
             [price |-> MidPrice - 2 * BREAKOUT_MARGIN, type |-> "support",
              timestamp |-> 2, wick_ratio |-> 0]>> }

(***************************************************************************)
(* The threads that call run_analysis_task: the scheduler's job, one        *)
(* instance at a time (608-615), and a /trigger background task (641).     *)
(***************************************************************************)
Procs == {"scheduler", "trigger"}

\* The frame of a call of run_analysis_task: where it is (pc), its locals
\* (force, current_price, swing_points, message, the branch still to run in
\* pending), and a record of what it did: the classification (kind), the
\* alert kinds whose gate it consulted (gates), the last gate's answer and
\* the time it read (allowed, gate_now), the time update_notify_state wrote
\* (stamp), the messages it sent (nsent), how it ended (result),
\* last_notified as it was when the call began (before), whether the day it
\* read at line 456 was a Saturday or Sunday (weekend), and the calls of
\* get_ai_analysis it made (nadvised).
IdleRun == [pc |-> "idle", force |-> FALSE, weekend |-> FALSE, nadvised |-> 0,
            current_price |-> 0,
            swing_points |-> <<>>, pending |-> <<>>, message |-> EmptyMessage,
            kind |-> "", gates |-> <<>>, allowed |-> FALSE, gate_now |-> 0,
            stamp |-> None, nsent |-> 0, result |-> "",
            before |-> [k \in Kinds |-> [time |-> None, price |-> 0]]]

InFlight(p) == run[p].pc \notin {"idle", "done"}

NoCall == [fn |-> "", df |-> <<>>, window |-> 0, returned |-> FALSE,
           raised |-> FALSE, points |-> <<>>, zones |-> <<>>,
           current_price |-> 0, context |-> [res |-> <<>>, sup |-> <<>>]]

\* the process after import: the globals of lines 35-51, no run begun
Booted ==
    /\ last_notified = [k \in Kinds |-> [time |-> None, price |-> 0]]
    /\ now = 0
    /\ run = [p \in Procs |-> IdleRun]
    /\ log = <<>>

Init ==
    /\ Booted
    /\ call = NoCall

\* the clock advances
Tick ==
    /\ now < MaxTime
    /\ now' = now + 1
    /\ UNCHANGED <<call, last_notified, run, log>>

\* the weekday gate applied to forced runs as well
Begin_GateForced(p, limit) ==
    /\ run[p].pc = "idle"
    /\ Len(log) + Cardinality({q \in Procs : InFlight(q)}) < limit
    /\ \E force \in (IF p = "scheduler" THEN {FALSE} ELSE BOOLEAN), weekend \in BOOLEAN :
         run' = [run EXCEPT ![p] =
                   IF weekend
                   THEN [IdleRun EXCEPT !.pc = "done", !.result = "weekend",
                                        !.force = force, !.weekend = weekend,
                                        !.before = last_notified]
                   ELSE [IdleRun EXCEPT !.pc = "fetch", !.force = force,
                                        !.weekend = weekend,
                                        !.before = last_notified]]
    /\ UNCHANGED <<call, last_notified, now, log>>

\* lines 451-459: the call, and the weekday gate.  The scheduler calls with
\* the default force=False (line 609), /trigger with its query flag (641)
Begin(p, limit) ==
    /\ run[p].pc = "idle"
    /\ Len(log) + Cardinality({q \in Procs : InFlight(q)}) < limit
    /\ \E force \in (IF p = "scheduler" THEN {FALSE} ELSE BOOLEAN), weekend \in BOOLEAN :
         run' = [run EXCEPT ![p] =
                   IF ~force /\ weekend
                   THEN [IdleRun EXCEPT !.pc = "done", !.result = "weekend",
                                        !.weekend = weekend,
                                        !.before = last_notified]
                   ELSE [IdleRun EXCEPT !.pc = "fetch", !.force = force,
                                        !.weekend = weekend,
                                        !.before = last_notified]]
    /\ UNCHANGED <<call, last_notified, now, log>>

\* the fetch outside any try: its exception leaves run_analysis_task
Fetch_Uncaught(p, prices, pointseqs) ==
    /\ run[p].pc = "fetch"
    /\ \/ run' = [run EXCEPT ![p].pc = "raised", ![p].result = "fetch_error"]
       \/ run' = [run EXCEPT ![p].pc = "done", ![p].result = "empty"]
       \/ \E cp \in prices, pts \in pointseqs :
            run' = [run EXCEPT ![p].pc = IF run[p].force THEN "diag" ELSE "analyze",
                               ![p].current_price = cp,
                               ![p].swing_points = pts]
    /\ UNCHANGED <<call, last_notified, now, log>>

\* lines 461-476: the candle fetch raises (caught at 594), returns an empty
\* frame (467-469), or returns candles and a current price
Fetch(p, prices, pointseqs) ==
    /\ run[p].pc = "fetch"
    /\ \/ \E r \in {"fetch_error", "empty"} :
            run' = [run EXCEPT ![p].pc = "done", ![p].result = r]
       \/ \E cp \in prices, pts \in pointseqs :
            run' = [run EXCEPT ![p].pc = IF run[p].force THEN "diag" ELSE "analyze",
                               ![p].current_price = cp,
                               ![p].swing_points = pts]
    /\ UNCHANGED <<call, last_notified, now, log>>

\* where the run goes once a branch of 549-580 is done with
AfterBranch(pending, message) ==
    IF pending # <<>> THEN "gate"
    ELSE IF message # EmptyMessage THEN "advise"
    ELSE "done"

\* lines 508-547: no swing point ends the run; otherwise the zones are
\* grouped and the branch to enter is chosen
Analyze(p) ==
    /\ run[p].pc = "analyze"
    /\ IF run[p].swing_points = <<>>
       THEN run' = [run EXCEPT ![p].pc = "done", ![p].result = "no_swing"]
       ELSE LET zones == group_price_zones(run[p].swing_points, ZONE_MERGE_PIPS)
                taken == TakenBranches(run[p].current_price, zones)
            IN  run' = [run EXCEPT ![p].pending = taken,
                                   ![p].kind = Classify(run[p].current_price, zones),
                                   ![p].pc = AfterBranch(taken, EmptyMessage),
                                   ![p].result = IF taken = <<>> THEN "quiet" ELSE ""]
    /\ UNCHANGED <<call, last_notified, now, log>>

\* the can_notify call of the branch entered (552, 559, 566, 572, 578)
Gate(p) ==
    /\ run[p].pc = "gate"
    /\ LET b == Head(run[p].pending)
           ok == can_notify(last_notified, b.kind, now)
       IN  run' = [run EXCEPT
                     ![p].gates = Append(@, b.kind),
                     ![p].allowed = ok,
                     ![p].gate_now = now,
                     ![p].pending = IF ok THEN @ ELSE Tail(@),
                     ![p].pc = IF ok THEN "notify"
                               ELSE AfterBranch(Tail(run[p].pending), run[p].message),
                     ![p].result = IF ok THEN @ ELSE "cooldown"]
    /\ UNCHANGED <<call, last_notified, now, log>>

\* the body of the branch: the message is built and update_notify_state
\* called (553-554, 560-561, 567-568, 573-574, 579-580)
Notify(p) ==
    /\ run[p].pc = "notify"
    /\ LET b == Head(run[p].pending)
           message == BuildMessage(b)
       IN  /\ last_notified' =
                 update_notify_state(last_notified, b.kind, run[p].current_price, now)
           /\ run' = [run EXCEPT ![p].message = message,
                                 ![p].stamp = now,
                                 ![p].pending = Tail(@),
                                 ![p].pc = AfterBranch(Tail(run[p].pending), message)]
    /\ UNCHANGED <<call, now, log>>

\* lines 479-499: the forced run builds its diagnostic message
Diag(p) ==
    /\ run[p].pc = "diag"
    /\ LET zones == group_price_zones(run[p].swing_points, ZONE_MERGE_PIPS)
       IN  run' = [run EXCEPT ![p].message = BuildTestMessage(run[p].current_price, zones),
                              ![p].pc = "advise"]
    /\ UNCHANGED <<call, last_notified, now, log>>

\* an advisor whose failure ends the run before the message is sent
Advise_FailureEndsRun(p) ==
    /\ run[p].pc = "advise"
    /\ \E text \in {"", "advice"} :
         run' = [run EXCEPT ![p].message.ai = text, ![p].nadvised = @ + 1,
                            ![p].pc = IF text = "" THEN "done" ELSE "send",
                            ![p].result = IF text = "" THEN "error" ELSE @]
    /\ UNCHANGED <<call, last_notified, now, log>>

\* get_ai_analysis (74-99) as called at 500 and 587: "" without a client
\* (76-77) or when the request raises (97-99), the advisory text otherwise
Advise(p) ==
    /\ run[p].pc = "advise"
    /\ \E text \in {"", "advice"} :
         run' = [run EXCEPT ![p].message.ai = text, ![p].nadvised = @ + 1,
                            ![p].pc = "send"]
    /\ UNCHANGED <<call, last_notified, now, log>>

\* send_line_message (55-70) as called at 501 and 589: the broadcast is
\* delivered, or the message is lost: there is no client (56-58) or the
\* broadcast raises and the error is printed (67-70)
Send(p) ==
    /\ run[p].pc = "send"
    /\ \E outcome \in {"sent", "lost"} :
         /\ log' = IF run[p].message.kind \in Kinds
                    THEN Append(log, [kind |-> run[p].message.kind,
                                      time |-> run[p].stamp])
                    ELSE log
         /\ run' = [run EXCEPT ![p].nsent = @ + 1, ![p].pc = "done",
                               ![p].result = outcome]
    /\ UNCHANGED <<call, last_notified, now>>

\* the call has returned; the thread is free for another one
Return(p) ==
    /\ run[p].pc = "done"
    /\ run' = [run EXCEPT ![p] = IdleRun]
    /\ UNCHANGED <<call, last_notified, now, log>>

\* The program: the scheduler's thread and the /trigger threads run
\* run_analysis_task with nothing to order them (599-642)
Next ==
    \/ Tick
    \/ \E p \in Procs :
         \/ Begin(p, MaxLog)
         \/ Fetch(p, {MidPrice}, Scenarios)
         \/ Analyze(p)
         \/ Gate(p)
         \/ Notify(p)
         \/ Diag(p)
         \/ Advise(p)
         \/ Send(p)
         \/ Return(p)

Spec == Init /\ [][Next]_vars

\* The runs of the program in which no invocation begins before the one
\* before it has returned
BeginSeq(p) ==
    /\ \A q \in Procs : run[q].pc = "idle"
    /\ Begin(p, MaxLog)

NextSeq ==
    \/ Tick
    \/ \E p \in Procs :
         \/ BeginSeq(p)
         \/ Fetch(p, {MidPrice}, Scenarios)
         \/ Analyze(p)
         \/ Gate(p)
         \/ Notify(p)
         \/ Diag(p)
         \/ Advise(p)
         \/ Send(p)
         \/ Return(p)

SpecSeq == Init /\ [][NextSeq]_vars

\* detect_swing_points on its own: every frame of candles and every window
\* within the bounds
PxLevels == 0..MaxPx
\* a candle closes at its high with no wick, or opens and closes at one end
\* of its range, leaving the whole range as a wick
Candles ==
    {c \in [Open : PxLevels, High : PxLevels, Low : PxLevels, Close : PxLevels] :
        /\ c.Low <= c.High
        /\ \/ c.Open = c.Low /\ c.Close = c.High
           \/ c.Open = c.Low /\ c.Close = c.Low
           \/ c.Open = c.High /\ c.Close = c.High}

Frames == UNION {[1..n -> Candles] : n \in 0..MaxCandles}

InitSwing ==
    /\ Booted
    /\ \E df \in Frames, window \in 0..MaxWindow :
         call = [NoCall EXCEPT !.fn = "detect_swing_points",
                               !.df = df, !.window = window]

Detect ==
    /\ call.fn = "detect_swing_points"
    /\ ~call.returned
    /\ LET r == detect_swing_points(call.df, call.window)
       IN  call' = [call EXCEPT !.returned = TRUE, !.raised = r.raised,
                                !.points = r.points]
    /\ UNCHANGED <<last_notified, now, run, log>>

NextSwing == Detect

SpecSwing == InitSwing /\ [][NextSwing]_vars

\* group_price_zones on its own, called as lines 482 and 516 call it: every
\* series of swing points within the bounds, in candle order, on a price grid
\* of half the merge distance, with wick ratios just below, at and above 2.0
ZonePrices == {i * (ZONE_MERGE_PIPS \div 2) : i \in 0..MaxZoneLevel}
WickRatios == {199, 200, 401}
ZoneInputs ==
    UNION { { [i \in 1..k |-> [price |-> f[i][1], type |-> f[i][2],
                               timestamp |-> i, wick_ratio |-> f[i][3]]]
              : f \in [1..k -> ZonePrices \X Types \X WickRatios] }
            : k \in 0..MaxZonePoints }

InitZones ==
    /\ Booted
    /\ \E pts \in ZoneInputs :
         call = [NoCall EXCEPT !.fn = "group_price_zones", !.points = pts]

Group ==
    /\ call.fn = "group_price_zones"
    /\ ~call.returned
    /\ call' = [call EXCEPT !.returned = TRUE,
                            !.zones = group_price_zones(call.points, ZONE_MERGE_PIPS)]
    /\ UNCHANGED <<last_notified, now, run, log>>

NextZones == Group

SpecZones == InitZones /\ [][NextZones]_vars

\* build_full_ai_context on its own, called as line 586 calls it: the zones
\* group_price_zones makes of swing points two merge distances apart, any
\* of the levels empty, and a price between two levels or beyond them all
CtxStep == 2 * ZONE_MERGE_PIPS
CtxLevels == 0..MaxCtxLevel
CtxPoints(f) ==
    LET RECURSIVE From(_)
        From(i) ==
            IF i > MaxCtxLevel THEN <<>>
            ELSE (IF f[i] = "none" THEN <<>>
                  ELSE <<[price |-> (i + 1) * CtxStep, type |-> f[i],
                          timestamp |-> i, wick_ratio |-> 0]>>) \o From(i + 1)
    IN  From(0)
CtxZones ==
    {group_price_zones(CtxPoints(f), ZONE_MERGE_PIPS) :
        f \in [CtxLevels -> Types \cup {"none"}]}
CtxPrices == {i * CtxStep + ZONE_MERGE_PIPS : i \in 0..(MaxCtxLevel + 1)}

InitContext ==
    /\ Booted
    /\ \E zones \in CtxZones, cp \in CtxPrices :
         call = [NoCall EXCEPT !.fn = "build_full_ai_context",
                               !.zones = zones, !.current_price = cp]

Context ==
    /\ call.fn = "build_full_ai_context"
    /\ ~call.returned
    /\ call' = [call EXCEPT !.returned = TRUE,
                            !.context = build_full_ai_context(call.current_price,
                                                              call.zones)]
    /\ UNCHANGED <<last_notified, now, run, log>>

NextContext == Context

SpecContext == InitContext /\ [][NextContext]_vars

\* One run of the scheduler's thread, up to the message it builds, over every
\* price and every series of swing points within the bounds
NextClassify ==
    \/ Begin("scheduler", 1)
    \/ Fetch("scheduler", CurrentPrices, PointSeqs(MaxPoints))
    \/ Analyze("scheduler")
    \/ Gate("scheduler")
    \/ Notify("scheduler")

SpecClassify == Init /\ [][NextClassify]_vars


(***************************************************************************)
(* What the claims are stated with.                                        *)
(***************************************************************************)
Zones(p) == group_price_zones(run[p].swing_points, ZONE_MERGE_PIPS)
ZoneSet(p) == {Zones(p)[i] : i \in 1..Len(Zones(p))}
Elems(s) == {s[i] : i \in 1..Len(s)}

\* the run has classified its price against its zones
Classified(p) == run[p].kind # ""
\* the run consulted a cooldown gate, and the gate said no
Denied(p) == run[p].gates # <<>> /\ ~run[p].allowed

\* the specification's words: nearby, broken upwards, broken downwards
Nearby(z, cp) == Abs(z.zone_price - cp) <= THRESHOLD
BrokenUp(z, cp) == z.type = "resistance" /\ z.zone_price < cp - BREAKOUT_MARGIN
BrokenDown(z, cp) == z.type = "support" /\ z.zone_price > cp + BREAKOUT_MARGIN
NearRes(Z, cp) == {z \in Z : z.type = "resistance" /\ Nearby(z, cp)}
NearSup(Z, cp) == {z \in Z : z.type = "support" /\ Nearby(z, cp)}

\* the fixed-order rule list of the specification, first match wins
FirstMatch(cp, Z) ==
    IF \E z \in Z : BrokenUp(z, cp) THEN "breakout_up"
    ELSE IF \E z \in Z : BrokenDown(z, cp) THEN "breakout_down"
    ELSE IF NearRes(Z, cp) # {} /\ NearSup(Z, cp) # {} THEN "range"
    ELSE IF NearRes(Z, cp) # {} THEN "resistance"
    ELSE IF NearSup(Z, cp) # {} THEN "support"
    ELSE "none"

\* the alerts of a kind sent before the run's own
PriorLog(p) ==
    IF run[p].nsent > 0 /\ run[p].message.kind \in Kinds
    THEN SubSeq(log, 1, Len(log) - 1)
    ELSE log

(***************************************************************************)
(* C1: in runs that do not overlap, any two alerts of the same kind are    *)
(* more than the cooldown apart (by the times update_notify_state          *)
(* recorded), and a gate says no exactly when an alert of that kind was    *)
(* recorded no more than the cooldown before the gate read the clock: a    *)
(* qualifying event is suppressed inside the window and never outside it.  *)
(***************************************************************************)
C1_Cooldown ==
    /\ \A i, j \in 1..Len(log) :
         (i < j /\ log[i].kind = log[j].kind)
            => log[j].time - log[i].time > Cooldown
    /\ \A p \in Procs :
         run[p].gates # <<>> =>
            (run[p].allowed <=>
                \A i \in 1..Len(PriorLog(p)) :
                    PriorLog(p)[i].kind = run[p].kind
                       => run[p].gate_now - PriorLog(p)[i].time > Cooldown)

\* two alerts of one kind have been sent, the second after the cooldown
C1_Witness ==
    \E i, j \in 1..Len(log) : i < j /\ log[i].kind = log[j].kind

(***************************************************************************)
(* C2: the runs are serialized, so no interleaving sends two alerts of     *)
(* one kind within one cooldown window.                                    *)
(***************************************************************************)
C2_NoRaceOnCooldown ==
    \A i, j \in 1..Len(log) :
        (i # j /\ log[i].kind = log[j].kind)
           => Abs(log[j].time - log[i].time) > Cooldown

(***************************************************************************)
(* C3: a run whose alert the notifier did not deliver leaves last_notified *)
(* as it found it.                                                         *)
(***************************************************************************)
C3_UpdateOnlyOnDelivery ==
    \A p \in Procs :
        (run[p].pc = "done" /\ ~run[p].force /\ run[p].result = "lost")
           => last_notified = run[p].before

(***************************************************************************)
(* C4: the classification is the first matching rule of breakout-up,       *)
(* breakout-down, range, approach-resistance, approach-support, none.      *)
(***************************************************************************)
C4_FirstMatchWins ==
    \A p \in Procs :
        Classified(p) => run[p].kind = FirstMatch(run[p].current_price, ZoneSet(p))

\* a breakout-down chosen over a range that also matches
C4_Witness ==
    \E p \in Procs :
        /\ run[p].kind = "breakout_down"
        /\ NearRes(ZoneSet(p), run[p].current_price) # {}
        /\ NearSup(ZoneSet(p), run[p].current_price) # {}

(***************************************************************************)
(* C5: a resistance zone broken by at least the breakout margin            *)
(* (current price - zone price >= BREAKOUT_MARGIN) makes the               *)
(* classification breakout-up.                                             *)
(***************************************************************************)
C5_BreakoutAtMargin ==
    \A p \in Procs :
        (/\ Classified(p)
         /\ \E z \in ZoneSet(p) :
              /\ z.type = "resistance"
              /\ run[p].current_price - z.zone_price >= BREAKOUT_MARGIN)
           => run[p].kind = "breakout_up"

C7_NearestNearby ==
    \A p \in Procs :
        LET cp == run[p].current_price
            Z  == ZoneSet(p)
            m  == run[p].message
            r  == m.zone
            u  == IF m.kind = "range" THEN m.zone2 ELSE m.zone
        IN  /\ run[p].swing_points # <<>> =>
                 /\ Elems(nearby_res(cp, Zones(p))) = NearRes(Z, cp)
                 /\ Elems(nearby_sup(cp, Zones(p))) = NearSup(Z, cp)
            /\ m.kind \in {"range", "resistance"} =>
                 /\ r \in NearRes(Z, cp)
                 /\ \A z \in Z : z.type = "resistance" =>
                        Abs(z.zone_price - cp) >= Abs(r.zone_price - cp)
            /\ m.kind \in {"range", "support"} =>
                 /\ u \in NearSup(Z, cp)
                 /\ \A z \in Z : z.type = "support" =>
                        Abs(z.zone_price - cp) >= Abs(u.zone_price - cp)

\* an approach alert for a resistance zone below the price, chosen over a
\* nearby resistance zone farther away
C7_Witness ==
    \E p \in Procs :
        /\ run[p].message.kind = "resistance"
        /\ run[p].message.zone.zone_price < run[p].current_price
        /\ \E z \in NearRes(ZoneSet(p), run[p].current_price) :
             Abs(z.zone_price - run[p].current_price)
                > Abs(run[p].message.zone.zone_price - run[p].current_price)

(***************************************************************************)
(* C8: an unforced run consults the gate of at most one kind, that of its  *)
(* classification, and sends at most one message; when the gate says no it *)
(* builds and sends nothing and leaves last_notified as it found it.       *)
(***************************************************************************)
C8_OneGateOneMessage ==
    \A p \in Procs :
        ~run[p].force =>
            /\ Len(run[p].gates) <= 1
            /\ \A i \in 1..Len(run[p].gates) : run[p].gates[i] = run[p].kind
            /\ run[p].nsent <= 1
            /\ Denied(p) =>
                 /\ run[p].nsent = 0
                 /\ run[p].message = EmptyMessage
                 /\ run[p].pc = "done"
                 /\ last_notified = run[p].before

\* a breakout inside its cooldown while the broken zone is also nearby: the
\* run ended without trying the approach alert
C8_Witness ==
    \E p \in Procs :
        /\ Denied(p)
        /\ run[p].kind = "breakout_up"
        /\ NearRes(ZoneSet(p), run[p].current_price) # {}

(***************************************************************************)
(* C9: the entry of a kind in last_notified holds the time of the latest   *)
(* alert of that kind and nothing of any other kind's, and a gate's answer *)
(* is decided by the entry of its own kind alone.                          *)
(***************************************************************************)
Notes(k) ==
    {log[i].time : i \in {n \in 1..Len(log) : log[n].kind = k}}
    \cup {run[p].stamp : p \in {q \in Procs : /\ run[q].pc \in {"advise", "send"}
                                              /\ run[q].message.kind = k}}

LatestNote(k) ==
    IF Notes(k) = {} THEN None
    ELSE CHOOSE t \in Notes(k) : \A n \in Notes(k) : n <= t

C9_IndependentTimers ==
    /\ \A k \in Kinds :
         /\ last_notified[k].time = LatestNote(k)
         /\ last_notified[k].time = None => last_notified[k].price = 0
    /\ \A p \in Procs :
         run[p].gates # <<>> =>
            LET own == run[p].before[run[p].kind]
            IN  run[p].allowed <=>
                   (own.time = None \/ run[p].gate_now - own.time > Cooldown)

\* alerts of two kinds sent within one cooldown window of each other
C9_Witness ==
    \E i, j \in 1..Len(log) :
        /\ log[i].kind # log[j].kind
        /\ Abs(log[j].time - log[i].time) <= Cooldown
        /\ last_notified[log[i].kind].time = log[i].time
        /\ last_notified[log[j].kind].time = log[j].time

(***************************************************************************)
(* C10: detect_swing_points returns without raising, every point it        *)
(* returns comes from a position i with window <= i < len - window, and a  *)
(* frame of fewer than 2*window+1 candles gives no point.                  *)
(***************************************************************************)
C10_SwingWindow ==
    (call.fn = "detect_swing_points" /\ call.returned) =>
        /\ ~call.raised
        /\ \A n \in 1..Len(call.points) :
             /\ call.window <= call.points[n].timestamp
             /\ call.points[n].timestamp < Len(call.df) - call.window
        /\ Len(call.df) < 2 * call.window + 1 => call.points = <<>>

\* the first candle has the highest high of the frame, is within the window
\* of the start, and is not among the swing points returned
C10_Witness ==
    /\ call.fn = "detect_swing_points"
    /\ call.returned
    /\ call.window = 1
    /\ Len(call.df) = 4
    /\ call.points # <<>>
    /\ \A n \in 2..Len(call.df) : call.df[n].High < call.df[1].High

(***************************************************************************)
(* C11: every evaluated candle gives one resistance point, priced at its   *)
(* high, iff no other candle of its window has a strictly greater high,    *)
(* and one support point, priced at its low, iff none has a strictly lower *)
(* low; equal highs of a plateau each give their own point.                *)
(***************************************************************************)
PointsAt(i, type) ==
    {n \in 1..Len(call.points) :
        call.points[n].timestamp = i /\ call.points[n].type = type}

C11_TiesCount ==
    (/\ call.fn = "detect_swing_points"
     /\ call.returned
     /\ Len(call.df) >= 2 * call.window + 1) =>
        \A i \in call.window..(Len(call.df) - call.window - 1) :
            LET others == {j \in (i - call.window)..(i + call.window) : j # i}
                top    == \A j \in others : call.df[j + 1].High <= call.df[i + 1].High
                bottom == \A j \in others : call.df[j + 1].Low >= call.df[i + 1].Low
            IN  /\ Cardinality(PointsAt(i, "resistance")) = IF top THEN 1 ELSE 0
                /\ Cardinality(PointsAt(i, "support")) = IF bottom THEN 1 ELSE 0
                /\ \A n \in PointsAt(i, "resistance") :
                        call.points[n].price = call.df[i + 1].High
                /\ \A n \in PointsAt(i, "support") :
                        call.points[n].price = call.df[i + 1].Low

\* a plateau of two: neighbouring candles with equal highs above the rest of
\* the frame, and a resistance point for each
C11_Witness ==
    /\ call.fn = "detect_swing_points"
    /\ call.returned
    /\ call.window = 1
    /\ Len(call.df) = 4
    /\ call.df[2].High = call.df[3].High
    /\ call.df[1].High < call.df[2].High
    /\ call.df[4].High < call.df[3].High
    /\ PointsAt(1, "resistance") # {}
    /\ PointsAt(2, "resistance") # {}

(***************************************************************************)
(* C12: the zones are consecutive runs of the points in ascending price    *)
(* order (equal prices in input order); a point joins the zone open before *)
(* it iff it has the zone's type and lies within merge_distance of the     *)
(* mean of the points already in it, and otherwise seeds the next zone; a  *)
(* point farther than merge_distance from that mean seeds a new zone       *)
(* however close it is to the seed, and a closed zone gets no more points. *)
(***************************************************************************)
Grouped == call.fn = "group_price_zones" /\ call.returned

\* the order sorted(key=price) gives points that arrive in candle order
Before(a, b) ==
    a.price < b.price \/ (a.price = b.price /\ a.timestamp < b.timestamp)

Members(z) == {z.reactions[n] : n \in 1..Len(z.reactions)}

RECURSIVE PriceSum(_)
PriceSum(S) ==
    IF S = {} THEN 0
    ELSE LET x == CHOOSE y \in S : TRUE IN x.price + PriceSum(S \ {x})

\* x is within merge_distance of the mean of the points of S
NearMean(x, S) ==
    Abs(x.price * Cardinality(S) - PriceSum(S)) <= ZONE_MERGE_PIPS * Cardinality(S)

Seed(z) == CHOOSE x \in Members(z) : \A y \in Members(z) : y = x \/ Before(x, y)

C12_RunningMean ==
    Grouped =>
        /\ \A k, l \in 1..Len(call.zones) :
              k < l => \A x \in Members(call.zones[k]), y \in Members(call.zones[l]) :
                          Before(x, y)
        /\ \A k \in 1..Len(call.zones) :
              LET z == call.zones[k]
              IN  /\ Seed(z).type = z.type
                  /\ \A x \in Members(z) \ {Seed(z)} :
                        LET earlier == {y \in Members(z) : Before(y, x)}
                        IN  x.type = z.type /\ NearMean(x, earlier)
        /\ \A k \in 1..(Len(call.zones) - 1) :
              LET z == call.zones[k]
                  x == Seed(call.zones[k + 1])
              IN  ~(x.type = z.type /\ NearMean(x, Members(z)))

\* The drift case itself: a point of the zone's type that seeded the next
\* zone, too far from the mean, while within merge_distance of the zone's
\* seed.  In ascending order the mean lies between the seed and the point,
\* so no grouping produces it.
SeedNearMeanFar ==
    /\ Grouped
    /\ \E k \in 1..(Len(call.zones) - 1) :
         LET z == call.zones[k]
             x == Seed(call.zones[k + 1])
         IN  /\ x.type = z.type
             /\ ~NearMean(x, Members(z))
             /\ Abs(x.price - Seed(z).price) <= ZONE_MERGE_PIPS

\* a point joined a zone whose mean it is near although it is farther than
\* merge_distance from the zone's seed
C12_Witness ==
    /\ Grouped
    /\ \E k \in 1..Len(call.zones) :
         \E x \in Members(call.zones[k]) :
            /\ Abs(x.price - Seed(call.zones[k]).price) > ZONE_MERGE_PIPS
            /\ Cardinality(Members(call.zones[k])) = 3

(***************************************************************************)
(* C13: every zone returned has a strength from 1 to 3: min(reaction       *)
(* count, 3), plus one exactly when that is below 3 and the mean wick      *)
(* ratio of the zone's reactions is at least 2.0 (and then the zone's      *)
(* avg_wick_ratio is at least 2.0 too); three or more reactions give 3.    *)
(***************************************************************************)
RECURSIVE WickSum(_)
WickSum(S) ==
    IF S = {} THEN 0
    ELSE LET x == CHOOSE y \in S : TRUE IN x.wick_ratio + WickSum(S \ {x})

C13_StrengthBounded ==
    Grouped =>
        \A k \in 1..Len(call.zones) :
            LET z    == call.zones[k]
                rc   == z.reaction_count
                base == IF rc < 3 THEN rc ELSE 3
            IN  /\ z.strength \in 1..3
                /\ z.strength \in {base, base + 1}
                /\ z.strength = base + 1 <=>
                      (WickSum(Members(z)) >= 200 * rc /\ base < 3)
                /\ z.strength = base + 1 => z.avg_wick_ratio >= 200
                /\ rc >= 3 => z.strength = 3

\* a zone of three reactions whose mean wick ratio is at least 2.0: the cap
\* withholds the bonus
C13_Witness ==
    /\ Grouped
    /\ \E k \in 1..Len(call.zones) :
         /\ call.zones[k].reaction_count = 3
         /\ call.zones[k].avg_wick_ratio >= 200
         /\ call.zones[k].strength = 3

\* a zone whose avg_wick_ratio reads 2.0 after rounding while the mean of
\* its reactions' wick ratios is below 2.0: it gets no bonus
RoundedUpToBonus ==
    /\ Grouped
    /\ \E k \in 1..Len(call.zones) :
         /\ call.zones[k].reaction_count = 2
         /\ call.zones[k].avg_wick_ratio = 200
         /\ call.zones[k].strength = 2

(***************************************************************************)
(* C14: a forced run is stopped by no gate: it never ends at the weekday   *)
(* gate, consults no cooldown gate and never calls update_notify_state;    *)
(* once its fetch has returned candles it builds the diagnostic message,   *)
(* calls the advisor once and hands the message to the notifier once,      *)
(* leaving last_notified as it found it.                                   *)
(***************************************************************************)
Fetched(p) == run[p].result \notin {"fetch_error", "empty"}

C14_ForcedBypassesGates ==
    \A p \in Procs :
        run[p].force =>
            /\ run[p].pc \notin {"analyze", "gate", "notify"}
            /\ run[p].result \notin {"weekend", "no_swing", "quiet", "cooldown"}
            /\ run[p].gates = <<>>
            /\ run[p].stamp = None
            /\ last_notified = run[p].before
            /\ (run[p].pc = "done" /\ Fetched(p)) =>
                  /\ run[p].message.kind = "test"
                  /\ run[p].nadvised = 1
                  /\ run[p].nsent = 1

\* a forced run on a weekend day that found no swing point, while an alert
\* kind is inside its cooldown, has sent its diagnostic message
C14_Witness ==
    \E p \in Procs :
        /\ run[p].force
        /\ run[p].weekend
        /\ run[p].pc = "done"
        /\ run[p].nsent = 1
        /\ run[p].swing_points = <<>>
        /\ \E k \in Kinds :
             /\ last_notified[k].time # None
             /\ now - last_notified[k].time <= Cooldown

(***************************************************************************)
(* C15: no exception leaves run_analysis_task: every step of a run leaves  *)
(* it at a line of the function or returned.  A run whose fetch raised or  *)
(* gave no candle has consulted no gate, built and sent nothing and left   *)
(* last_notified as it found it, and when it returns the thread and the    *)
(* shared state are as they were before it began.                          *)
(***************************************************************************)
FetchFailed(p) == run[p].result \in {"fetch_error", "empty"}

FailedRunLeftNothing ==
    \A p \in Procs :
        /\ run[p].pc \in {"idle", "fetch", "analyze", "gate", "notify", "diag",
                           "advise", "send", "done"}
        /\ FetchFailed(p) =>
              /\ run[p].pc = "done"
              /\ run[p].gates = <<>>
              /\ run[p].message = EmptyMessage
              /\ run[p].nadvised = 0
              /\ run[p].nsent = 0
              /\ run[p].stamp = None
              /\ last_notified = run[p].before

FailedRunReturns ==
    \A p \in Procs :
        (FetchFailed(p) /\ run'[p] # run[p]) =>
            /\ run'[p] = IdleRun
            /\ last_notified' = run[p].before
            /\ log' = log

C15_FailureIsolated == []FailedRunLeftNothing /\ [][FailedRunReturns]_vars

\* a run whose fetch raised, after an alert of an earlier run set a cooldown
C15_Witness ==
    \E p \in Procs :
        /\ run[p].result = "fetch_error"
        /\ run[p].pc = "done"
        /\ \E k \in Kinds : last_notified[k].time # None

(***************************************************************************)
(* C16: a run that built a message calls the advisor once and then hands   *)
(* the notifier that message once, whatever the advisor returned; when the *)
(* advisor failed or is not configured the text it adds is empty, and the  *)
(* message handed over is the base message as built.                       *)
(***************************************************************************)
\* the message the run's branch builds before any advice is added
BaseMessage(p) ==
    IF run[p].force
    THEN BuildTestMessage(run[p].current_price, Zones(p))
    ELSE BuildMessage(Head(TakenBranches(run[p].current_price, Zones(p))))

C16_AdvisorFailureHarmless ==
    \A p \in Procs :
        /\ run[p].message # EmptyMessage =>
              /\ [run[p].message EXCEPT !.ai = ""] = BaseMessage(p)
              /\ run[p].message.ai \in {"", "advice"}
              /\ run[p].pc \in {"advise", "send", "done"}
              /\ run[p].nadvised = IF run[p].pc = "advise" THEN 0 ELSE 1
              /\ run[p].nsent = IF run[p].pc = "done" THEN 1 ELSE 0
        /\ run[p].message = EmptyMessage => run[p].nadvised = 0 /\ run[p].nsent = 0

\* an alert whose advisor returned nothing has been handed to the notifier
C16_Witness ==
    \E p \in Procs :
        /\ run[p].pc = "done"
        /\ run[p].message.kind \in Kinds
        /\ run[p].nadvised = 1
        /\ run[p].message.ai = ""
        /\ run[p].nsent = 1

(***************************************************************************)
(* C17: the zones listed in the AI context are, for each type, the nearest *)
(* to the current price: no unlisted zone of a type is strictly closer to  *)
(* the price than a listed zone of that type.                              *)
(***************************************************************************)
Listed(lines) == {lines[n].zone : n \in 1..Len(lines)}

NearestListed(lines, type) ==
    \A z \in Listed(lines) :
        \A y \in Elems(call.zones) :
            (y.type = type /\ y \notin Listed(lines)) =>
                Abs(y.zone_price - call.current_price)
                    >= Abs(z.zone_price - call.current_price)

C17_NearestFiveListed ==
    (call.fn = "build_full_ai_context" /\ call.returned) =>
        /\ NearestListed(call.context.res, "resistance")
        /\ NearestListed(call.context.sup, "support")

(***************************************************************************)
(* C18: the zones partition the input points by type: every input point is *)
(* a reaction of exactly one zone, every reaction is an input point of the *)
(* zone's type, reaction_count is the number of reactions and is at least  *)
(* one, and the reaction counts add up to the number of input points.      *)
(***************************************************************************)
RECURSIVE CountSum(_)
CountSum(zones) ==
    IF zones = <<>> THEN 0 ELSE Head(zones).reaction_count + CountSum(Tail(zones))

C18_ZonesPartitionPoints ==
    Grouped =>
        /\ \A i \in 1..Len(call.points) :
              Cardinality({k \in 1..Len(call.zones) :
                              call.points[i] \in Members(call.zones[k])}) = 1
        /\ \A k \in 1..Len(call.zones) :
              LET z == call.zones[k]
              IN  /\ Members(z) \subseteq Elems(call.points)
                  /\ \A x \in Members(z) : x.type = z.type
                  /\ z.reaction_count = Len(z.reactions)
                  /\ z.reaction_count = Cardinality(Members(z))
                  /\ z.reaction_count >= 1
        /\ CountSum(call.zones) = Len(call.points)

\* a resistance and a support point at one price, apart in two zones, beside
\* a zone of two reactions
C18_Witness ==
    /\ Grouped
    /\ \E k, l \in 1..Len(call.zones) :
         /\ k # l
         /\ call.zones[k].type # call.zones[l].type
         /\ \E x \in Members(call.zones[k]), y \in Members(call.zones[l]) :
              x.price = y.price
         /\ call.zones[k].reaction_count = 2

====
